---- MODULE Spec2Model ----
(***************************************************************************)
(* Connection lifecycle of the NordVPN switching daemons                   *)
(*   src/vpn_switcherV3.py  (prog = "V3")                                  *)
(*   src/vpn_switcher.py    (prog = "V1")                                  *)
(*                                                                         *)
(* One action per blocking call or statement group of the scripts.  The    *)
(* external nordvpn tool is the environment: every subprocess.run draws    *)
(* its result from SubprocessRun, every random draw from a bounded sample  *)
(* of its range.  A termination request is the KeyboardInterrupt the       *)
(* scripts handle; it is delivered at most once, while control is inside   *)
(* the try body of the main block.                                         *)
(***************************************************************************)
EXTENDS Integers, Sequences, FiniteSets

VARIABLES
    prog,                           \* which script runs
    catalog,                        \* P2P_OPTIMIZED_COUNTRIES after module import
    pc,                             \* position of the single control thread
    country,                        \* connect_p2p_vpn: local `country` (0: not in scope)
    success,                        \* value returned by connect_p2p_vpn
    consecutive_failures,           \* loop local
    base_switch_interval_seconds,   \* V3 loop local (0: not yet drawn)
    sleep_seconds,                  \* argument of the loop's time.sleep in progress
    setting_idx,                    \* next `nordvpn set` of the fixed sequence
    \* ---- history (observation only, never read by the program) ----
    last_cmd,                       \* <<subcommand, location>> of the last nordvpn call
    connect_issued,                 \* a connect command has been issued
    connect_result,                 \* this attempt's connect: "none" | "ok" | exception
    status_result,                  \* this attempt's status: "none" | "ok" | "nonzero" | exception
    status_stdout,                  \* this attempt's status stdout ("n/a": none captured)
    failed_since_success,           \* attempts that returned False since the last True
    outcomes,                       \* the last HistLen values returned by connect_p2p_vpn
    fault,                          \* exception that reached `except Exception` of main
    fault_at,                       \* pc at which that exception was raised
    term_at,                        \* pc at which KeyboardInterrupt was delivered
    cmds_after_exit,                \* nordvpn subcommands issued after leaving the try body
    final_disconnect,               \* how the final disconnect ended ("none": not run)
    connects_seen,                  \* connect results so far: "none" | "ok" | "timeout" | "mixed"
    statuses_connected,             \* every status query so far printed the connected marker
    sleeps_since_connect            \* loop sleeps entered since the last connect command (2: more than one)

vars == << prog, catalog, pc, country, success, consecutive_failures,
           base_switch_interval_seconds, sleep_seconds, setting_idx,
           last_cmd, connect_issued, connect_result, status_result, status_stdout,
           failed_since_success, outcomes, fault, fault_at,
           term_at, cmds_after_exit, final_disconnect,
           connects_seen, statuses_connected, sleeps_since_connect >>

\* locals of the loop function (main_vpn_loop, switch_vpn)
loopLocals == << success, consecutive_failures, base_switch_interval_seconds,
                 sleep_seconds, setting_idx >>

\* what is recorded about the attempt in progress and the attempts before it
attemptHist == << connect_result, status_result, status_stdout >>

loopHist == << failed_since_success, outcomes >>

exitHist == << fault, fault_at, term_at, cmds_after_exit, final_disconnect >>

\* what the external tool has answered so far, and the sleeps since a connect
envHist == << connects_seen, statuses_connected, sleeps_since_connect >>

-----------------------------------------------------------------------------
(* Bounds of the exploration *)

\* longest catalog literal explored
MaxCatalog == 2

\* consecutive failed attempts the environment is allowed to produce
MaxFailures == 7

\* length of the window of remembered attempt outcomes
HistLen == 4

\* values taken at each end of random.randint(3600, 7200)
BaseSamples == 1

\* values taken at each end of the rotation interval's randint
IntervalSamples == 0

\* location codes a catalog literal may hold
Locations == {1, 2}

-----------------------------------------------------------------------------
(* Pure helpers *)

Min(a, b) == IF a <= b THEN a ELSE b

RECURSIVE Pow2(_)
Pow2(n) == IF n <= 0 THEN 1 ELSE 2 * Pow2(n - 1)

Range(s) == { s[i] : i \in DOMAIN s }

MinOf(S) == CHOOSE m \in S : \A x \in S : m <= x

RECURSIVE SortedSeq(_)
SortedSeq(S) == IF S = {} THEN << >>
                ELSE LET m == MinOf(S) IN << m >> \o SortedSeq(S \ {m})

\* a randint(lo, hi) draw, sampled at both ends of its range
RandintSample(lo, hi, k) ==
    { x \in lo..hi : x <= lo + k \/ x >= hi - k }

RawCatalogs == UNION { [1..n -> Locations] : n \in 0..MaxCatalog }

\* the window of the last HistLen outcomes
Remember(h, o) ==
    LET a == Append(h, o)
    IN  IF Len(a) > HistLen THEN SubSeq(a, 2, Len(a)) ELSE a

-----------------------------------------------------------------------------
(* vpn_switcherV3.py: module level and pure parts *)

\* line 72: sorted(list(set(P2P_OPTIMIZED_COUNTRIES)))
DedupKeepsDuplicates(raw) == raw
SortedDedup(raw) == SortedSeq(Range(raw))

\* line 105 / V1 line 33: random.choice(P2P_OPTIMIZED_COUNTRIES)
RandomChoice(cat) == Range(cat)

\* line 165: min(60 * (2 ** (consecutive_failures - 1)), 1800)
RetryDelayCapsEarly(n) == Min(60 * Pow2(n - 1), 960)
RetryDelay(n) == Min(60 * Pow2(n - 1), 1800)

\* lines 157-158: int(base * 0.9), int(base * 1.1); the float products
\* truncate to the integer quotients for every base in 3600..7200
IntervalLow(base) == (9 * base) \div 10
IntervalHighLoose(base) == (12 * base) \div 10
IntervalHigh(base) == (11 * base) \div 10

\* subprocess.run: the results a call can have.  check=True turns a non-zero
\* exit into CalledProcessError (stderr is the captured text); a timeout
\* raises TimeoutExpired whose stderr is None unless the child wrote to
\* stderr before it was killed; a tool that cannot be executed raises OSError.
\* Without timeout= the call waits for the child as long as it runs, so a
\* child that never exits keeps the call from ever returning.
SubprocessRun(check, timeout) ==
    { [kind |-> "completed", rc |-> 0, stderr |-> "str"] }
    \cup (IF check
          THEN { [kind |-> "CalledProcessError", rc |-> 1, stderr |-> "str"] }
          ELSE { [kind |-> "completed", rc |-> 1, stderr |-> "str"] })
    \cup (IF timeout
          THEN { [kind |-> "TimeoutExpired", rc |-> 0, stderr |-> s] :
                     s \in {"None", "bytes"} }
          ELSE { [kind |-> "never_returns", rc |-> 0, stderr |-> "absent"] })
    \cup { [kind |-> "OSError", rc |-> 0, stderr |-> "absent"] }

\* V3 lines 132-138: the except clauses of connect_p2p_vpn.  The first clause
\* evaluates e.stderr.strip(); hasattr(e, 'stderr') is true for both exception
\* types, so a stderr of None raises AttributeError inside the handler, which
\* the sibling `except Exception` clause does not catch.
ConnectExcept(e) ==
    IF e.kind \in {"CalledProcessError", "TimeoutExpired"}
    THEN IF e.stderr = "None" THEN "AttributeError" ELSE "False"
    ELSE "False"

\* V1 lines 53-58: e.stderr is only formatted, never dereferenced
ConnectExceptV1(e) == "False"

\* V1 line 76: min(300 * consecutive_failures, 3600)
RetryDelayV1(n) == Min(300 * n, 3600)

\* the environment produces at most MaxFailures failed attempts in a row
CanFail == consecutive_failures < MaxFailures

InTryBody == pc \notin {"finally", "stopped"}

SleepPcs == {"rotation_sleep", "backoff_sleep"}

SetupPcs == {"setup_check", "setup_meshnet_on", "setup_meshnet_wait",
             "setup_peer_refresh", "setup_set"}

LoopPcs == {"choose", "pre_disconnect", "pre_settle", "connect", "verify_settle",
            "status", "decide", "rotation_sleep", "backoff_sleep"}

-----------------------------------------------------------------------------
Init ==
    /\ prog \in {"V3", "V1"}
    /\ \E raw \in RawCatalogs :
           catalog = IF prog = "V3" THEN SortedDedup(raw) ELSE raw
    /\ pc = "main_disconnect"
    /\ country = 0
    /\ success = FALSE
    /\ consecutive_failures = 0
    /\ base_switch_interval_seconds = 0
    /\ sleep_seconds = 0
    /\ setting_idx = 0
    /\ last_cmd = << "none", 0 >>
    /\ connect_issued = FALSE
    /\ connect_result = "none"
    /\ status_result = "none"
    /\ status_stdout = "n/a"
    /\ failed_since_success = 0
    /\ outcomes = << >>
    /\ fault = "none"
    /\ fault_at = "none"
    /\ term_at = "none"
    /\ cmds_after_exit = << >>
    /\ final_disconnect = "none"
    /\ connects_seen = "none"
    /\ statuses_connected = TRUE
    /\ sleeps_since_connect = 0

-----------------------------------------------------------------------------
(* Shared steps *)

\* the texts `nordvpn status` is taken to print
StatusTexts == {"", "Status: Connected", "Status: Disconnected"}

\* V3 line 125: "Status: Connected" in status_check.stdout
HasConnectedMarker(text) == text = "Status: Connected"

\* V1 line 49: "Disconnected" in status.stdout
HasDisconnected(text) == text = "Status: Disconnected"

\* what the connect commands have answered, after one more result
SeenConnect(seen, kind) ==
    LET k == IF kind = "completed" THEN "ok"
             ELSE IF kind = "TimeoutExpired" THEN "timeout" ELSE "mixed"
    IN  IF seen \in {"none", k} THEN k ELSE "mixed"

\* lines 154 and 163 (V1: 69 and 75): the counter after an attempt
CountWithoutReset(n, ok) == IF ok THEN n ELSE n + 1
NextFailures(n, ok) == IF ok THEN 0 ELSE n + 1

Attempt(cr, sr, so) ==
    /\ connect_result' = cr
    /\ status_result' = sr
    /\ status_stdout' = so

\* leaving the try body discards the frames of the loop and of the attempt,
\* and with them what was being recorded about the running loop
Unwind ==
    /\ country' = 0
    /\ success' = FALSE
    /\ consecutive_failures' = 0
    /\ base_switch_interval_seconds' = 0
    /\ sleep_seconds' = 0
    /\ setting_idx' = 0
    /\ Attempt("none", "none", "n/a")
    /\ failed_since_success' = 0
    /\ outcomes' = << >>

RaiseSkipsFinally(exc) ==
    /\ pc' = "stopped"
    /\ fault' = exc
    /\ fault_at' = pc
    /\ Unwind
    /\ UNCHANGED << term_at, cmds_after_exit, final_disconnect >>

\* an exception reaches `except Exception` of the main block (V3 178, V1 87)
Raise(exc) ==
    /\ pc' = "finally"
    /\ fault' = exc
    /\ fault_at' = pc
    /\ Unwind
    /\ UNCHANGED << term_at, cmds_after_exit, final_disconnect >>

\* connect_p2p_vpn goes on to its next statement
Inside(next, cr, sr, so) ==
    /\ pc' = next
    /\ Attempt(cr, sr, so)
    /\ UNCHANGED << country, loopLocals, loopHist, exitHist >>

\* connect_p2p_vpn returns `ok` to the loop
Return(ok, cr, sr, so) ==
    /\ ok \/ CanFail
    /\ pc' = "decide"
    /\ country' = 0
    /\ success' = ok
    /\ Attempt(cr, sr, so)
    /\ outcomes' = Remember(outcomes, ok)
    /\ failed_since_success' = IF ok THEN 0 ELSE failed_since_success + 1
    /\ UNCHANGED << consecutive_failures, base_switch_interval_seconds,
                    sleep_seconds, setting_idx, exitHist >>

InterruptRestartsRotation ==
    /\ InTryBody
    /\ term_at = "none"
    /\ term_at' = pc
    /\ IF pc = "rotation_sleep"
       THEN pc' = "choose" /\ UNCHANGED << country, loopLocals, attemptHist, loopHist >>
       ELSE pc' = "finally" /\ Unwind
    /\ UNCHANGED << envHist, prog, catalog, last_cmd, connect_issued,
                    fault, fault_at, cmds_after_exit, final_disconnect >>

\* KeyboardInterrupt delivered inside the try body (V3 176-177, V1 85-86)
KeyboardInterrupt ==
    /\ InTryBody
    /\ term_at = "none"
    /\ term_at' = pc
    /\ pc' = "finally"
    /\ Unwind
    /\ UNCHANGED << envHist, prog, catalog, last_cmd, connect_issued,
                    fault, fault_at, cmds_after_exit, final_disconnect >>

-----------------------------------------------------------------------------
(* vpn_switcherV3.py *)

\* line 173: initial disconnect, timeout=30, exit code ignored, outside any
\* handler but the main block's own
main_disconnect ==
    /\ prog = "V3" /\ pc = "main_disconnect"
    /\ last_cmd' = << "disconnect", 0 >>
    /\ \E r \in SubprocessRun(FALSE, TRUE) :
           IF r.kind = "completed"
           THEN Inside("main_settle", "none", "none", "n/a")
           ELSE Raise(r.kind)
    /\ UNCHANGED << envHist, prog, catalog, connect_issued >>

\* line 174: time.sleep(2), then main_vpn_loop() enters setup_nordvpn_settings()
main_settle ==
    /\ prog = "V3" /\ pc = "main_settle"
    /\ pc' = "setup_check"
    /\ UNCHANGED << envHist, prog, catalog, country, loopLocals, last_cmd, connect_issued,
                    attemptHist, loopHist, exitHist >>

\* the set commands of lines 91-94, in order
SettingsV3 == << "killswitch", "cybersec", "autoconnect", "firewall" >>

setupUnchanged == << envHist, prog, catalog, country, success, consecutive_failures,
                     base_switch_interval_seconds, sleep_seconds, connect_issued,
                     attemptHist, loopHist, exitHist >>

\* lines 78-88: `nordvpn settings` (timeout=30, exit code ignored); any
\* exception is caught at 98-101 and ends the setup
setup_nordvpn_settings_check ==
    /\ prog = "V3" /\ pc = "setup_check"
    /\ last_cmd' = << "settings", 0 >>
    /\ \E r \in SubprocessRun(FALSE, TRUE), meshnet \in BOOLEAN :
           IF r.kind = "completed"
           THEN IF meshnet THEN pc' = "setup_set" /\ setting_idx' = 1
                ELSE pc' = "setup_meshnet_on" /\ setting_idx' = 0
           ELSE pc' = "loop_init" /\ setting_idx' = 0
    /\ UNCHANGED setupUnchanged

\* line 83: set meshnet on (check=True, no timeout)
setup_nordvpn_settings_meshnet ==
    /\ prog = "V3" /\ pc = "setup_meshnet_on"
    /\ last_cmd' = << "set meshnet", 0 >>
    /\ \E r \in SubprocessRun(TRUE, FALSE) :
           pc' = IF r.kind = "completed" THEN "setup_meshnet_wait"
                 ELSE IF r.kind = "never_returns" THEN "blocked" ELSE "loop_init"
    /\ UNCHANGED setting_idx
    /\ UNCHANGED setupUnchanged

\* line 84: time.sleep(5)
setup_nordvpn_settings_wait ==
    /\ prog = "V3" /\ pc = "setup_meshnet_wait"
    /\ pc' = "setup_peer_refresh"
    /\ UNCHANGED << setting_idx, last_cmd >>
    /\ UNCHANGED setupUnchanged

\* line 85: meshnet peer refresh (check=True, no timeout)
setup_nordvpn_settings_refresh ==
    /\ prog = "V3" /\ pc = "setup_peer_refresh"
    /\ last_cmd' = << "meshnet peer refresh", 0 >>
    /\ \E r \in SubprocessRun(TRUE, FALSE) :
           IF r.kind = "completed"
           THEN pc' = "setup_set" /\ setting_idx' = 1
           ELSE IF r.kind = "never_returns"
                THEN pc' = "blocked" /\ setting_idx' = 0
                ELSE pc' = "loop_init" /\ setting_idx' = 0
    /\ UNCHANGED setupUnchanged

\* lines 91-94 inside the single try of 76-101: the first set command that
\* fails raises out of the try block, so the ones after it are not run
setup_nordvpn_settings_set ==
    /\ prog = "V3" /\ pc = "setup_set"
    /\ last_cmd' = << "set " \o SettingsV3[setting_idx], 0 >>
    /\ \E r \in SubprocessRun(TRUE, FALSE) :
           IF r.kind = "never_returns"
           THEN pc' = "blocked" /\ setting_idx' = setting_idx
           ELSE IF r.kind = "completed" /\ setting_idx < Len(SettingsV3)
                THEN pc' = "setup_set" /\ setting_idx' = setting_idx + 1
                ELSE pc' = "loop_init" /\ setting_idx' = 0
    /\ UNCHANGED setupUnchanged

\* lines 145-148
main_vpn_loop_init ==
    /\ prog = "V3" /\ pc = "loop_init"
    /\ consecutive_failures' = 0
    /\ base_switch_interval_seconds' \in RandintSample(3600, 7200, BaseSamples)
    /\ pc' = "choose"
    /\ UNCHANGED << envHist, prog, catalog, country, success, sleep_seconds, setting_idx,
                    last_cmd, connect_issued, attemptHist, loopHist,
                    exitHist >>

\* lines 105-106: random.choice is outside the try of 107; IndexError on an
\* empty catalog propagates to the main block
connect_p2p_vpn_choose ==
    /\ prog = "V3" /\ pc = "choose"
    /\ IF catalog = << >>
       THEN Raise("IndexError")
       ELSE /\ pc' = "pre_disconnect"
            /\ country' \in RandomChoice(catalog)
            /\ sleep_seconds' = 0
            /\ Attempt("none", "none", "n/a")
            /\ UNCHANGED << success, consecutive_failures,
                            base_switch_interval_seconds, setting_idx,
                            loopHist, exitHist >>
    /\ UNCHANGED << envHist, prog, catalog, last_cmd, connect_issued >>

\* line 109: disconnect before connecting (timeout=30, exit code ignored);
\* it sits inside the try of 107, so its exceptions go to 132-138
connect_p2p_vpn_disconnect ==
    /\ prog = "V3" /\ pc = "pre_disconnect"
    /\ last_cmd' = << "disconnect", 0 >>
    /\ \E r \in SubprocessRun(FALSE, TRUE) :
           IF r.kind = "completed" THEN Inside("pre_settle", "none", "none", "n/a")
           ELSE IF ConnectExcept(r) = "False"
                THEN Return(FALSE, "none", "none", "n/a")
                ELSE Raise(ConnectExcept(r))
    /\ UNCHANGED << envHist, prog, catalog, connect_issued >>

\* line 110: time.sleep(2)
connect_p2p_vpn_settle ==
    /\ prog = "V3" /\ pc = "pre_settle"
    /\ Inside("connect", "none", "none", "n/a")
    /\ UNCHANGED << envHist, prog, catalog, last_cmd, connect_issued >>

\* lines 113-120: connect <country> --group p2p (check=True, timeout=90)
connect_p2p_vpn_connect ==
    /\ prog = "V3" /\ pc = "connect"
    /\ last_cmd' = << "connect", country >>
    /\ connect_issued' = TRUE
    /\ sleeps_since_connect' = 0
    /\ \E r \in SubprocessRun(TRUE, TRUE) :
           /\ connects_seen' = SeenConnect(connects_seen, r.kind)
           /\ IF r.kind = "completed" THEN Inside("verify_settle", "ok", "none", "n/a")
              ELSE IF ConnectExcept(r) = "False"
                   THEN Return(FALSE, r.kind, "none", "n/a")
                   ELSE Raise(ConnectExcept(r))
    /\ UNCHANGED << statuses_connected, prog, catalog >>

\* line 123: time.sleep(10)
connect_p2p_vpn_wait ==
    /\ prog = "V3" /\ pc = "verify_settle"
    /\ Inside("status", connect_result, "none", "n/a")
    /\ UNCHANGED << envHist, prog, catalog, last_cmd, connect_issued >>

\* lines 124-130: status (timeout=30, exit code ignored), marker test
connect_p2p_vpn_status ==
    /\ prog = "V3" /\ pc = "status"
    /\ last_cmd' = << "status", 0 >>
    /\ \E r \in SubprocessRun(FALSE, TRUE), text \in StatusTexts :
           /\ statuses_connected' =
                  (statuses_connected /\ r.kind = "completed" /\ text = "Status: Connected")
           /\ IF r.kind = "completed"
              THEN Return(HasConnectedMarker(text), connect_result,
                          IF r.rc = 0 THEN "ok" ELSE "nonzero", text)
              ELSE IF ConnectExcept(r) = "False"
                   THEN Return(FALSE, connect_result, r.kind, "n/a")
                   ELSE Raise(ConnectExcept(r))
    /\ UNCHANGED << connects_seen, sleeps_since_connect, prog, catalog, connect_issued >>

loopUnchanged == << connects_seen, statuses_connected, prog, catalog, country,
                    success, base_switch_interval_seconds, setting_idx, last_cmd,
                    connect_issued, attemptHist, loopHist, exitHist >>

\* lines 153-167: the branch on `success`, up to the call of time.sleep
main_vpn_loop_branch ==
    /\ prog = "V3" /\ pc = "decide"
    /\ consecutive_failures' = NextFailures(consecutive_failures, success)
    /\ IF success
       THEN /\ sleep_seconds' \in
                   RandintSample(IntervalLow(base_switch_interval_seconds),
                                 IntervalHigh(base_switch_interval_seconds),
                                 IntervalSamples)
            /\ pc' = "rotation_sleep"
       ELSE /\ sleep_seconds' = RetryDelay(consecutive_failures')
            /\ pc' = "backoff_sleep"
    /\ sleeps_since_connect' = Min(sleeps_since_connect + 1, 2)
    /\ UNCHANGED loopUnchanged

SleepThenReconfigure ==
    /\ prog = "V3" /\ pc \in SleepPcs
    /\ pc' = "setup_check"
    /\ UNCHANGED << consecutive_failures, sleep_seconds, sleeps_since_connect >>
    /\ UNCHANGED loopUnchanged

\* lines 161 and 167: time.sleep returns, the while loop starts over
main_vpn_loop_sleep ==
    /\ prog = "V3" /\ pc \in SleepPcs
    /\ pc' = "choose"
    /\ UNCHANGED << consecutive_failures, sleep_seconds, sleeps_since_connect >>
    /\ UNCHANGED loopUnchanged

FinallyWithoutDisconnect ==
    /\ prog = "V3" /\ pc = "finally"
    /\ pc' = "stopped"
    /\ UNCHANGED << envHist, prog, catalog, country, loopLocals, last_cmd, connect_issued,
                    attemptHist, loopHist, exitHist >>

\* lines 180-187: the final disconnect; its own failure is caught at 185
main_finally ==
    /\ prog = "V3" /\ pc = "finally"
    /\ last_cmd' = << "disconnect", 0 >>
    /\ cmds_after_exit' = Append(cmds_after_exit, "disconnect")
    /\ pc' = "stopped"
    /\ \E r \in SubprocessRun(FALSE, TRUE) : final_disconnect' = r.kind
    /\ UNCHANGED << envHist, prog, catalog, country, loopLocals, connect_issued, attemptHist,
                    loopHist, fault, fault_at, term_at >>

NextV3 ==
    \/ main_disconnect
    \/ main_settle
    \/ setup_nordvpn_settings_check
    \/ setup_nordvpn_settings_meshnet
    \/ setup_nordvpn_settings_wait
    \/ setup_nordvpn_settings_refresh
    \/ setup_nordvpn_settings_set
    \/ main_vpn_loop_init
    \/ connect_p2p_vpn_choose
    \/ connect_p2p_vpn_disconnect
    \/ connect_p2p_vpn_settle
    \/ connect_p2p_vpn_connect
    \/ connect_p2p_vpn_wait
    \/ connect_p2p_vpn_status
    \/ main_vpn_loop_branch
    \/ main_vpn_loop_sleep
    \/ main_finally

-----------------------------------------------------------------------------
(* vpn_switcher.py *)

\* line 83: initial disconnect (timeout=30), then switch_vpn() -> setup_vpn()
v1_main_disconnect ==
    /\ prog = "V1" /\ pc = "main_disconnect"
    /\ last_cmd' = << "disconnect", 0 >>
    /\ \E r \in SubprocessRun(FALSE, TRUE) :
           IF r.kind = "completed"
           THEN /\ pc' = "setup_set"
                /\ setting_idx' = 1
                /\ UNCHANGED << country, success, consecutive_failures,
                                base_switch_interval_seconds, sleep_seconds,
                                attemptHist, loopHist, exitHist >>
           ELSE Raise(r.kind)
    /\ UNCHANGED << envHist, prog, catalog, connect_issued >>

\* the set commands of lines 23-26, in order
SettingsV1 == << "killswitch", "cybersec", "autoconnect", "protocol" >>

\* lines 22-29: one try around the four set commands (check=True, no
\* timeout); only CalledProcessError is caught
setup_vpn ==
    /\ prog = "V1" /\ pc = "setup_set"
    /\ last_cmd' = << "set " \o SettingsV1[setting_idx], 0 >>
    /\ \E r \in SubprocessRun(TRUE, FALSE) :
           IF r.kind = "OSError" THEN Raise(r.kind)
           ELSE /\ IF r.kind = "never_returns"
                   THEN pc' = "blocked" /\ setting_idx' = setting_idx
                   ELSE IF r.kind = "completed" /\ setting_idx < Len(SettingsV1)
                        THEN pc' = "setup_set" /\ setting_idx' = setting_idx + 1
                        ELSE pc' = "loop_init" /\ setting_idx' = 0
                /\ UNCHANGED << country, success, consecutive_failures,
                                base_switch_interval_seconds, sleep_seconds,
                                attemptHist, loopHist, exitHist >>
    /\ UNCHANGED << envHist, prog, catalog, connect_issued >>

\* line 63
switch_vpn_init ==
    /\ prog = "V1" /\ pc = "loop_init"
    /\ consecutive_failures' = 0
    /\ pc' = "choose"
    /\ UNCHANGED << envHist, prog, catalog, country, success, base_switch_interval_seconds,
                    sleep_seconds, setting_idx, last_cmd, connect_issued,
                    attemptHist, loopHist, exitHist >>

\* line 33: random.choice, outside the try of 34
v1_connect_p2p_vpn_choose ==
    /\ prog = "V1" /\ pc = "choose"
    /\ IF catalog = << >>
       THEN Raise("IndexError")
       ELSE /\ pc' = "connect"
            /\ country' \in RandomChoice(catalog)
            /\ sleep_seconds' = 0
            /\ Attempt("none", "none", "n/a")
            /\ UNCHANGED << success, consecutive_failures,
                            base_switch_interval_seconds, setting_idx,
                            loopHist, exitHist >>
    /\ UNCHANGED << envHist, prog, catalog, last_cmd, connect_issued >>

\* lines 36-44: connect <country> --group p2p (check=True, timeout=60)
v1_connect_p2p_vpn_connect ==
    /\ prog = "V1" /\ pc = "connect"
    /\ last_cmd' = << "connect", country >>
    /\ connect_issued' = TRUE
    /\ sleeps_since_connect' = 0
    /\ \E r \in SubprocessRun(TRUE, TRUE) :
           /\ connects_seen' = SeenConnect(connects_seen, r.kind)
           /\ IF r.kind = "completed" THEN Inside("verify_settle", "ok", "none", "n/a")
              ELSE IF ConnectExceptV1(r) = "False"
                   THEN Return(FALSE, r.kind, "none", "n/a")
                   ELSE Raise(ConnectExceptV1(r))
    /\ UNCHANGED << statuses_connected, prog, catalog >>

\* line 47: time.sleep(5)
v1_connect_p2p_vpn_wait ==
    /\ prog = "V1" /\ pc = "verify_settle"
    /\ Inside("status", connect_result, "none", "n/a")
    /\ UNCHANGED << envHist, prog, catalog, last_cmd, connect_issued >>

\* lines 48-58: status (no timeout, exit code ignored); "Disconnected" in the
\* output raises ConnectionError, which `except Exception` turns into False
v1_connect_p2p_vpn_status ==
    /\ prog = "V1" /\ pc = "status"
    /\ last_cmd' = << "status", 0 >>
    /\ \E r \in SubprocessRun(FALSE, FALSE), text \in StatusTexts :
           /\ statuses_connected' =
                  (statuses_connected /\ r.kind = "completed" /\ text = "Status: Connected")
           /\ IF r.kind = "completed"
              THEN Return(~HasDisconnected(text), connect_result,
                          IF r.rc = 0 THEN "ok" ELSE "nonzero", text)
              ELSE IF r.kind = "never_returns"
                   THEN Inside("blocked", connect_result, "none", "n/a")
                   ELSE Return(FALSE, connect_result, r.kind, "n/a")
    /\ UNCHANGED << connects_seen, sleeps_since_connect, prog, catalog, connect_issued >>

\* lines 68-78: the branch on `success`, up to the call of time.sleep
switch_vpn_branch ==
    /\ prog = "V1" /\ pc = "decide"
    /\ consecutive_failures' = NextFailures(consecutive_failures, success)
    /\ IF success
       THEN /\ sleep_seconds' \in RandintSample(900, 2700, IntervalSamples)
            /\ pc' = "rotation_sleep"
       ELSE /\ sleep_seconds' = RetryDelayV1(consecutive_failures')
            /\ pc' = "backoff_sleep"
    /\ sleeps_since_connect' = Min(sleeps_since_connect + 1, 2)
    /\ UNCHANGED loopUnchanged

\* lines 73 and 78: time.sleep returns, the while loop starts over
switch_vpn_sleep ==
    /\ prog = "V1" /\ pc \in SleepPcs
    /\ pc' = "choose"
    /\ UNCHANGED << consecutive_failures, sleep_seconds, sleeps_since_connect >>
    /\ UNCHANGED loopUnchanged

\* lines 89-91: the final disconnect (timeout=30) is not guarded; if it
\* raises, the exception escapes and the interpreter exits
v1_main_finally ==
    /\ prog = "V1" /\ pc = "finally"
    /\ last_cmd' = << "disconnect", 0 >>
    /\ cmds_after_exit' = Append(cmds_after_exit, "disconnect")
    /\ pc' = "stopped"
    /\ \E r \in SubprocessRun(FALSE, TRUE) : final_disconnect' = r.kind
    /\ UNCHANGED << envHist, prog, catalog, country, loopLocals, connect_issued, attemptHist,
                    loopHist, fault, fault_at, term_at >>

NextV1 ==
    \/ v1_main_disconnect
    \/ setup_vpn
    \/ switch_vpn_init
    \/ v1_connect_p2p_vpn_choose
    \/ v1_connect_p2p_vpn_connect
    \/ v1_connect_p2p_vpn_wait
    \/ v1_connect_p2p_vpn_status
    \/ switch_vpn_branch
    \/ switch_vpn_sleep
    \/ v1_main_finally

-----------------------------------------------------------------------------
Next == NextV3 \/ NextV1 \/ KeyboardInterrupt

Spec == Init /\ [][Next]_vars

\* Steps that cannot block for ever: sleeps of a finite duration, commands
\* run with a timeout, and statements that call nothing.  The set commands
\* (V3 83, 85, 91-94; V1 23-26) and the V1 status query (48) are run without
\* a timeout and are left out.
Bounded ==
    \/ main_disconnect \/ main_settle \/ setup_nordvpn_settings_check
    \/ setup_nordvpn_settings_wait \/ main_vpn_loop_init
    \/ connect_p2p_vpn_choose \/ connect_p2p_vpn_disconnect
    \/ connect_p2p_vpn_settle \/ connect_p2p_vpn_connect \/ connect_p2p_vpn_wait
    \/ connect_p2p_vpn_status \/ main_vpn_loop_branch \/ main_vpn_loop_sleep
    \/ main_finally
    \/ v1_main_disconnect \/ switch_vpn_init \/ v1_connect_p2p_vpn_choose
    \/ v1_connect_p2p_vpn_connect \/ v1_connect_p2p_vpn_wait
    \/ switch_vpn_branch \/ switch_vpn_sleep \/ v1_main_finally

LiveSpec == Spec /\ WF_vars(Bounded)

-----------------------------------------------------------------------------
(* Claims *)

BackoffTable == << 60, 120, 240, 480, 960, 1800 >>

\* C1: in vpn_switcherV3.py the backoff sleep after the n-th consecutive
\* failure lasts 60, 120, 240, 480, 960, 1800 seconds for n = 1..6 and
\* 1800 seconds for every n >= 6.
C1_BackoffSequence ==
    (prog = "V3" /\ pc = "backoff_sleep") =>
        /\ consecutive_failures >= 1
        /\ sleep_seconds = IF consecutive_failures <= 6
                           THEN BackoffTable[consecutive_failures]
                           ELSE 1800

C1_Witness ==
    /\ prog = "V3" /\ pc = "backoff_sleep"
    /\ consecutive_failures = 7 /\ sleep_seconds = 1800

\* C2: in main_vpn_loop consecutive_failures is the number of failed attempts
\* since the last successful one (since the start if none succeeded): 0 before
\* the first attempt, 0 in every rotation sleep, one more after every failure;
\* after failure, failure, success, failure the backoff sleep lasts 60 s.
C2_CounterTracksFailures ==
    prog = "V3" =>
        /\ pc \in (LoopPcs \ {"decide"}) =>
               consecutive_failures = failed_since_success
        /\ pc = "decide" =>
               failed_since_success = IF success THEN 0 ELSE consecutive_failures + 1
        /\ (pc = "choose" /\ outcomes = << >>) => consecutive_failures = 0
        /\ pc = "rotation_sleep" => consecutive_failures = 0
        /\ (pc = "backoff_sleep" /\ outcomes = << FALSE, FALSE, TRUE, FALSE >>) =>
               (consecutive_failures = 1 /\ sleep_seconds = 60)

C2_Witness ==
    /\ prog = "V3" /\ pc = "backoff_sleep"
    /\ outcomes = << FALSE, FALSE, TRUE, FALSE >>
    /\ sleep_seconds = 60

\* C3: in vpn_switcherV3.py an attempt counts as a success only if connect
\* succeeded and the status query succeeded with the connected marker in its
\* output; when connect succeeds and the status query lacks the marker, fails
\* or times out, the attempt is a failure followed by a backoff sleep.
C3_VerificationDecides ==
    prog = "V3" =>
        /\ (pc \in {"decide", "rotation_sleep"} /\ success) =>
               /\ connect_result = "ok"
               /\ status_result = "ok"
               /\ status_stdout = "Status: Connected"
        /\ (pc \in SleepPcs /\ connect_result = "ok"
              /\ (status_result # "ok" \/ status_stdout # "Status: Connected")) =>
               (pc = "backoff_sleep" /\ consecutive_failures >= 1)
        /\ fault_at # "status"

C6_Original ==
    (prog = "V3" /\ pc = "rotation_sleep") =>
        /\ base_switch_interval_seconds \in 3600..7200
        /\ 9 * base_switch_interval_seconds <= 10 * sleep_seconds
        /\ 10 * sleep_seconds <= 11 * base_switch_interval_seconds

\* C6 (amended): the base interval B is drawn once, lies in 3600..7200 and
\* does not change while the loop runs; every rotation sleep d satisfies
\* floor(0.9*B) <= d <= floor(1.1*B), so d is at most 1.1*B and is less than
\* one second below 0.9*B.
C6_IntervalWithinTruncatedBounds ==
    /\ []((prog = "V3" /\ pc = "rotation_sleep") =>
            /\ base_switch_interval_seconds \in 3600..7200
            /\ 9 * base_switch_interval_seconds - 10 < 10 * sleep_seconds
            /\ 10 * sleep_seconds <= 11 * base_switch_interval_seconds)
    /\ []((prog = "V3" /\ pc \in LoopPcs) =>
            base_switch_interval_seconds \in 3600..7200)
    /\ [][(prog = "V3" /\ pc \in LoopPcs /\ pc' \in LoopPcs) =>
            base_switch_interval_seconds' = base_switch_interval_seconds]_vars

C6_Witness ==
    /\ prog = "V3" /\ pc = "rotation_sleep"
    /\ outcomes = << TRUE, TRUE, TRUE >>
    /\ 10 * sleep_seconds < 9 * base_switch_interval_seconds

NoDuplicates(cat) ==
    \A i, j \in DOMAIN cat : i # j => cat[i] # cat[j]

\* C7: in vpn_switcherV3.py the catalog holds no duplicates and every connect
\* command names a member of it; with an empty catalog no connect command is
\* ever issued, the attempt raises a fatal error, and the final disconnect is
\* still issued.
C7_CatalogSelection ==
    prog = "V3" =>
        /\ NoDuplicates(catalog)
        /\ last_cmd[1] = "connect" => (\E i \in DOMAIN catalog : catalog[i] = last_cmd[2])
        /\ country # 0 => (\E i \in DOMAIN catalog : catalog[i] = country)
        /\ catalog = << >> =>
               /\ ~connect_issued
               /\ pc \notin (LoopPcs \ {"choose"})
               /\ pc = "stopped" => cmds_after_exit = << "disconnect" >>
        /\ fault = "IndexError" <=> (fault_at = "choose")
        /\ fault = "IndexError" => catalog = << >>

C7_Witness ==
    /\ prog = "V3" /\ catalog = << >>
    /\ pc = "stopped" /\ fault = "IndexError"
    /\ cmds_after_exit = << "disconnect" >>

\* C8: every set command of the fixed sequence is issued whether or not an
\* earlier configuration command failed: the setup is left for the loop only
\* from the last set command of the sequence.
C8_SettingsIndependent ==
    [][(pc # "loop_init" /\ pc' = "loop_init") =>
          (pc = "setup_set"
             /\ setting_idx = Len(IF prog = "V3" THEN SettingsV3 ELSE SettingsV1))]_vars

\* C9: inside the rotation loop of vpn_switcherV3.py no failure of the
\* disconnect, connect or status command ends the process.
C9_LoopSurvivesCommandFailures ==
    prog = "V3" => fault_at \notin {"pre_disconnect", "connect", "status"}

\* C10: in vpn_switcherV3.py the process leaves the try body only on a
\* termination request or on the fatal error of an empty catalog; a failed
\* or timed-out initial disconnect does not end it.
C10_InitialDisconnectNotFatal ==
    (prog = "V3" /\ pc \in {"finally", "stopped"}) =>
        \/ term_at # "none"
        \/ (fault = "IndexError" /\ catalog = << >>)

\* C11: when every connect command succeeds and every status query reports
\* connected, the failure counter of the loop of vpn_switcherV3.py is 0 in
\* every state of the loop and no backoff sleep is entered.
C11_AllSucceedNoBackoff ==
    (prog = "V3" /\ connects_seen \in {"none", "ok"} /\ statuses_connected) =>
        /\ pc \in LoopPcs => consecutive_failures = 0
        /\ pc = "decide" => success
        /\ pc # "backoff_sleep"

\* C12: when every connect command of vpn_switcherV3.py times out, every
\* cycle ends in a backoff sleep with the counter one higher and the delay
\* 60 * 2^(n-1) capped at 1800, the process keeps running, and there is no
\* rotation sleep and no status query.
C12_TimeoutsOnlyBackOff ==
    (prog = "V3" /\ connects_seen = "timeout") =>
        /\ fault_at # "connect"
        /\ pc \notin {"verify_settle", "status", "rotation_sleep"}
        /\ last_cmd[1] # "status"
        /\ pc = "decide" => ~success
        /\ pc = "backoff_sleep" =>
               (consecutive_failures = failed_since_success
                  /\ sleep_seconds = RetryDelay(consecutive_failures))

\* C13: in vpn_switcherV3.py every attempt issues a connect command whatever
\* the pre-connect disconnect did: no attempt returns, and the process does
\* not end, on the disconnect alone.
C13_DisconnectBestEffort ==
    prog = "V3" =>
        /\ pc = "decide" => connect_result # "none"
        /\ pc \in SleepPcs => last_cmd[1] \in {"connect", "status"}
        /\ fault_at # "pre_disconnect"

\* C14: in vpn_switcherV3.py a status query follows only a connect command
\* of the same attempt that returned success, and a connect command that
\* fails or times out leads to the backoff sleep as a failed attempt.
C14_StatusOnlyAfterConnect ==
    prog = "V3" =>
        /\ pc \in {"verify_settle", "status"} => connect_result = "ok"
        /\ (pc = "decide" /\ status_result # "none") => connect_result = "ok"
        /\ (pc = "decide" /\ connect_result \notin {"none", "ok"}) =>
               (~success /\ status_result = "none")
        /\ fault_at # "connect"

\* C15: in vpn_switcherV3.py exactly one sleep lies between two consecutive
\* connect commands, a rotation sleep after a successful attempt and a
\* backoff sleep after a failed one.
C15_OneSleepBetweenConnects ==
    prog = "V3" =>
        /\ (pc = "connect" /\ connect_issued) => sleeps_since_connect = 1
        /\ pc = "rotation_sleep" => success
        /\ pc = "backoff_sleep" => ~success

\* C16: no external command blocks the daemon: a command that does not
\* return is cut off by its timeout, so the daemon never waits for ever on
\* a command it has issued.
C16_CommandsBounded == pc # "blocked"

SetupCommands ==
    {"settings", "set meshnet", "meshnet peer refresh"}
        \cup {"set " \o SettingsV3[i] : i \in 1..Len(SettingsV3)}

\* C17: in vpn_switcherV3.py the setup is entered once, from the start of the
\* main block, and never again; while it runs no connect command has been
\* issued; each of its steps, whatever its command returned, leads to a
\* further setup step or to the loop (or waits on a command that has not
\* returned); once a connect command has been issued no setup command follows.
C17_ConfiguratorRunsOnce ==
    /\ [](prog = "V3" =>
            /\ pc \in SetupPcs => ~connect_issued
            /\ (connect_issued /\ pc \in LoopPcs) => last_cmd[1] \notin SetupCommands)
    /\ [][prog = "V3" =>
            /\ pc' = "setup_check" => pc = "main_settle"
            /\ pc' = "main_settle" => pc = "main_disconnect"
            /\ pc' # "main_disconnect"
            /\ (pc \in SetupPcs /\ term_at' = term_at) =>
                   pc' \in SetupPcs \cup {"loop_init", "blocked"}]_vars

C17_Witness ==
    /\ prog = "V3" /\ pc = "loop_init"
    /\ last_cmd = << "set killswitch", 0 >>

C19_ExponentialBackoffV1 ==
    (prog = "V1" /\ pc = "backoff_sleep") =>
        /\ sleep_seconds <= 3600
        /\ sleep_seconds = Min(300 * Pow2(consecutive_failures - 1), 3600)

\* C20: in vpn_switcher.py an attempt returns success only when the status
\* query returned text containing the connected marker, and a status query
\* always returns.
C20_MarkerSoleSignalV1 ==
    prog = "V1" =>
        /\ (pc \in {"decide", "rotation_sleep"} /\ success) =>
               HasConnectedMarker(status_stdout)
        /\ ~(pc = "blocked" /\ last_cmd[1] = "status")

====
